---- MODULE Spec2Model ----
(***************************************************************************)
(* Campus map front end: the location picker (MapSelector and its child    *)
(* LocationMarker) and the API helpers of lib/api.ts, lib/api/buildings.ts. *)
(*                                                                         *)
(* Two specifications share the module.  SpecPicker is the React state     *)
(* machine of the location picker; Spec is the API helpers run against a   *)
(* nondeterministic transport.                                             *)
(***************************************************************************)
EXTENDS Integers, Sequences, FiniteSets, TLC

VARIABLES
    \* ---- location picker (part_002) ----
    prop,             \* initialPosition prop the parent passes to MapSelector
    selectedPosition, \* MapSelector: useState(defaultPosition)
    defaultPosition,  \* MapSelector: the object computed by the last render
    position,         \* LocationMarker: useState(initialPosition || literal)
    mapCenter,        \* Leaflet map view centre
    zoom,             \* Leaflet map zoom level
    calls,            \* positions handed to the parent's onLocationSelect
    pc,               \* "idle" | "render" | "effect"
    msDirty,          \* MapSelector has a pending re-render
    hist,             \* user input events so far (clicks, field edits)
    lastAct,          \* the last external event and what it established
    flew,             \* map.flyTo has run since the last external event
    \* ---- API helpers (lib/api.ts, lib/api/buildings.ts) ----
    localStorage,     \* window.localStorage item under LOCAL_STORAGE_KEY
    inflight,         \* the API call awaiting its fetch, if any
    last,             \* the last completed API call and its outcome
    lastSave          \* the last completed saveBoundaries call

pickerVars == <<prop, selectedPosition, defaultPosition, position, mapCenter,
                zoom, calls, pc, msDirty, hist, lastAct, flew>>
apiVars == <<localStorage, inflight, last, lastSave>>
vars == <<prop, selectedPosition, defaultPosition, position, mapCenter,
          zoom, calls, pc, msDirty, hist, lastAct, flew,
          localStorage, inflight, last, lastSave>>

(***************************************************************************)
(* Bounds                                                                  *)
(***************************************************************************)
MaxEvents == 3      \* user input events (clicks and field edits) per run
NumPropObjs == 2    \* distinct position objects the parent may pass
MaxPoints == 3      \* longest boundary polygon handed to saveBoundaries

(***************************************************************************)
(* Numbers.  A JavaScript number is a record: a finite value in            *)
(* micro-degrees (the inputs' step is 0.000001), an infinity with its      *)
(* sign, or NaN.                                                           *)
(***************************************************************************)
Micro == 1000000
Fin(m) == [k |-> "num", v |-> m]
Inf(s) == [k |-> "inf", v |-> s]
NaN == [k |-> "nan", v |-> 0]

isNaN(n) == n.k = "nan"
IsFinite(n) == n.k = "num"

Digits == <<"0", "1", "2", "3", "4", "5", "6", "7", "8", "9">>
IsDigit(c) == \E i \in 1..10 : Digits[i] = c
DigitVal(c) == (CHOOSE i \in 1..10 : Digits[i] = c) - 1

RECURSIVE Pow10(_)
Pow10(n) == IF n <= 0 THEN 1 ELSE 10 * Pow10(n - 1)

\* Length of the longest prefix of s made of digits.
RECURSIVE DigitRun(_)
DigitRun(s) ==
    IF s = <<>> \/ ~IsDigit(Head(s)) THEN 0 ELSE 1 + DigitRun(Tail(s))

\* Value of a sequence of digits.
RECURSIVE DigitsVal(_, _)
DigitsVal(s, acc) ==
    IF s = <<>> THEN acc ELSE DigitsVal(Tail(s), acc * 10 + DigitVal(Head(s)))

Drop(s, n) == SubSeq(s, n + 1, Len(s))
Take(s, n) == SubSeq(s, 1, n)
StartsWith(s, p) == Len(s) >= Len(p) /\ Take(s, Len(p)) = p

RECURSIVE SkipSpace(_)
SkipSpace(s) == IF s # <<>> /\ Head(s) = " " THEN SkipSpace(Tail(s)) ELSE s

InfinityWord == <<"I", "n", "f", "i", "n", "i", "t", "y">>

\* Fraction digits as micro-units: the first six digits, right-padded.
FracMicro(ds) ==
    LET six == Take(ds, IF Len(ds) < 6 THEN Len(ds) ELSE 6)
    IN  DigitsVal(six, 0) * Pow10(6 - Len(six))

\* parseFloat(text): leading blanks, a sign, then "Infinity" or the longest
\* prefix that is a decimal literal (digits, fraction, exponent); NaN when
\* no such prefix exists.  Trailing characters are ignored.  Exact for
\* literals of at most six fraction digits whose value fits an integer.
parseFloat(text) ==
    LET s0 == SkipSpace(text)
        neg == s0 # <<>> /\ Head(s0) = "-"
        signed == s0 # <<>> /\ Head(s0) \in {"-", "+"}
        s1 == IF signed THEN Tail(s0) ELSE s0
        sgn == IF neg THEN -1 ELSE 1
        ni == DigitRun(s1)
        s2 == Drop(s1, ni)
        dot == s2 # <<>> /\ Head(s2) = "."
        nf == IF dot THEN DigitRun(Tail(s2)) ELSE 0
        fr == IF dot THEN Take(Tail(s2), nf) ELSE <<>>
        s3 == IF dot THEN Drop(s2, nf + 1) ELSE s2
        e0 == IF s3 # <<>> /\ Head(s3) \in {"e", "E"} THEN Tail(s3) ELSE <<>>
        eneg == e0 # <<>> /\ Head(e0) = "-"
        e1 == IF e0 # <<>> /\ Head(e0) \in {"-", "+"} THEN Tail(e0) ELSE e0
        ne == DigitRun(e1)
        ex == IF ne = 0 THEN 0 ELSE DigitsVal(Take(e1, ne), 0)
        mant == DigitsVal(Take(s1, ni), 0) * Micro + FracMicro(fr)
    IN  IF StartsWith(s1, InfinityWord) THEN Inf(sgn)
        ELSE IF ni = 0 /\ nf = 0 THEN NaN
        ELSE IF mant = 0 THEN Fin(0)
        ELSE IF eneg THEN Fin(sgn * (mant \div Pow10(ex)))
        ELSE IF ex + ni > 309 THEN Inf(sgn)   \* beyond the largest double
        ELSE Fin(sgn * mant * Pow10(ex))

(***************************************************************************)
(* Position objects.  src/id carry the object's identity, which React      *)
(* compares with Object.is: "prop" objects are the parent's (the same id   *)
(* is the same object), "lit" is the literal a render of MapSelector       *)
(* creates, "ev" is the newPos an event handler creates.                   *)
(***************************************************************************)
DefaultLat == 6517710
DefaultLng == 3375340

Obj(src, id, lat, lng) == [src |-> src, id |-> id, lat |-> lat, lng |-> lng]
PosVal(p) == [lat |-> p.lat, lng |-> p.lng]

\* Object.is on two position objects: a literal or a handler's newPos is a
\* new object each time it is evaluated.
SameObject(a, b) == a.src = "prop" /\ b.src = "prop" /\ a.id = b.id

DefaultLiteral == Obj("lit", 0, Fin(DefaultLat), Fin(DefaultLng))

\* The parent's position objects: odd ids hold (6.5, 3.3), even ids
\* (6.6, 3.4), so two distinct objects may hold equal coordinates.
PropObj(id) ==
    IF id % 2 = 1 THEN Obj("prop", id, Fin(6500000), Fin(3300000))
    ELSE Obj("prop", id, Fin(6600000), Fin(3400000))

Undefined == [def |-> FALSE, obj |-> DefaultLiteral]
Defined(o) == [def |-> TRUE, obj |-> o]
Props == {Undefined} \cup {Defined(PropObj(i)) : i \in 1..NumPropObjs}

\* Map clicks: e.latlng of the pointer event.
ClickCoords ==
    { [lat |-> Fin(6500000), lng |-> Fin(3300000)],
      [lat |-> Fin(6550000), lng |-> Fin(3350000)] }

\* Field texts: "6.6", "abc", "Infinity".
Text66 == <<"6", ".", "6">>
TextAbc == <<"a", "b", "c">>
TextInf == <<"I", "n", "f", "i", "n", "i", "t", "y">>
EditTexts == {Text66, TextAbc, TextInf}

ZoomLevels == {17, 18}
InitialZoom == 17

NoAct == [kind |-> "none", val |-> PosVal(DefaultLiteral), zoom |-> InitialZoom]
Act(kind, val, z) == [kind |-> kind, val |-> val, zoom |-> z]

Event(kind, val, text) == [kind |-> kind, val |-> val, text |-> text]

(***************************************************************************)
(* MapSelector / LocationMarker                                            *)
(***************************************************************************)
\* const defaultPosition = initialPosition || { lat: 6.51771, lng: 3.37534 }
ComputeDefault(p) == IF p.def THEN p.obj ELSE DefaultLiteral

\* Faulty variant of MergeLat: the merged object is built from the default
\* coordinate instead of the current selection.
MergeLatFromDefault(pos, newLat) == Obj("ev", 0, newLat, Fin(DefaultLng))

\* { ...selectedPosition, lat: newLat }
MergeLat(pos, newLat) == Obj("ev", 0, newLat, pos.lng)

\* { ...selectedPosition, lng: newLng }
MergeLng(pos, newLng) == Obj("ev", 0, pos.lat, newLng)

\* Faulty variant of Notify: the callback fires twice for one selection.
NotifyTwice(log, location) == log \o <<PosVal(location), PosVal(location)>>

\* onLocationSelect(location): the parent's callback, one call per use.
Notify(log, location) == Append(log, PosVal(location))

\* useEffect(..., [initialPosition, map]): the map object is stable, so the
\* effect is due when the initialPosition object changed between renders.
DepsChanged(prev, cur) == ~SameObject(prev, cur)

PickerInit ==
    /\ prop \in Props
    /\ defaultPosition = ComputeDefault(prop)
    /\ selectedPosition = defaultPosition
    /\ position = defaultPosition
    /\ mapCenter = PosVal(defaultPosition)
    /\ zoom = InitialZoom
    /\ calls = <<>>
    /\ pc = "idle"
    /\ msDirty = FALSE
    /\ hist = <<>>
    /\ lastAct = NoAct
    /\ flew = FALSE

\* useMapEvents click handler, then handleLocationSelect.
Click(c) ==
    /\ pc = "idle"
    /\ Len(hist) < MaxEvents
    /\ LET newPos == Obj("ev", 0, c.lat, c.lng)
       IN  /\ position' = newPos
           /\ selectedPosition' = newPos
           /\ calls' = Notify(calls, newPos)
           /\ hist' = Append(hist, Event("click", PosVal(newPos), <<>>))
           /\ lastAct' = Act("click", PosVal(newPos), zoom)
    /\ msDirty' = TRUE
    /\ pc' = "render"
    /\ flew' = FALSE
    /\ UNCHANGED <<prop, defaultPosition, mapCenter, zoom>>
    /\ UNCHANGED apiVars

\* Latitude field onChange.
EditLat(text) ==
    /\ pc = "idle"
    /\ Len(hist) < MaxEvents
    /\ LET newLat == parseFloat(text)
           newPos == MergeLat(selectedPosition, newLat)
       IN  /\ hist' = Append(hist, Event("editLat", PosVal(selectedPosition), text))
           /\ IF ~isNaN(newLat)
              THEN /\ selectedPosition' = newPos
                   /\ calls' = Notify(calls, newPos)
                   /\ lastAct' = Act("edit", PosVal(newPos), zoom)
                   /\ msDirty' = TRUE
                   /\ pc' = "render"
              ELSE /\ lastAct' = Act("noedit", lastAct.val, zoom)
                   /\ UNCHANGED <<selectedPosition, calls, msDirty, pc>>
    /\ flew' = FALSE
    /\ UNCHANGED <<prop, defaultPosition, position, mapCenter, zoom>>
    /\ UNCHANGED apiVars

\* Longitude field onChange.
EditLng(text) ==
    /\ pc = "idle"
    /\ Len(hist) < MaxEvents
    /\ LET newLng == parseFloat(text)
           newPos == MergeLng(selectedPosition, newLng)
       IN  /\ hist' = Append(hist, Event("editLng", PosVal(selectedPosition), text))
           /\ IF ~isNaN(newLng)
              THEN /\ selectedPosition' = newPos
                   /\ calls' = Notify(calls, newPos)
                   /\ lastAct' = Act("edit", PosVal(newPos), zoom)
                   /\ msDirty' = TRUE
                   /\ pc' = "render"
              ELSE /\ lastAct' = Act("noedit", lastAct.val, zoom)
                   /\ UNCHANGED <<selectedPosition, calls, msDirty, pc>>
    /\ flew' = FALSE
    /\ UNCHANGED <<prop, defaultPosition, position, mapCenter, zoom>>
    /\ UNCHANGED apiVars

\* The parent re-renders MapSelector with initialPosition = p (a new
\* object, the same object again, or none).
PropChange(p) ==
    /\ pc = "idle"
    /\ prop' = p
    /\ msDirty' = TRUE
    /\ pc' = "render"
    /\ lastAct' = IF p.def /\ ~(prop.def /\ SameObject(prop.obj, p.obj))
                  THEN Act("prop", PosVal(p.obj), zoom)
                  ELSE Act("rerender", lastAct.val, zoom)
    /\ flew' = FALSE
    /\ UNCHANGED <<selectedPosition, defaultPosition, position, mapCenter,
                   zoom, calls, hist>>
    /\ UNCHANGED apiVars

\* The user zooms the map with its zoom control.
ZoomMap(z) ==
    /\ pc = "idle"
    /\ z # zoom
    /\ zoom' = z
    /\ lastAct' = Act("zoom", lastAct.val, z)
    /\ flew' = FALSE
    /\ UNCHANGED <<prop, selectedPosition, defaultPosition, position,
                   mapCenter, calls, pc, msDirty, hist>>
    /\ UNCHANGED apiVars

\* React renders the dirty components.  A render of MapSelector evaluates
\* defaultPosition afresh and hands it to LocationMarker, whose effect is
\* due when that object differs from the one of the previous render.
Render ==
    /\ pc = "render"
    /\ IF msDirty
       THEN LET cur == ComputeDefault(prop)
            IN  /\ defaultPosition' = cur
                /\ pc' = IF DepsChanged(defaultPosition, cur)
                         THEN "effect" ELSE "idle"
       ELSE /\ pc' = "idle"
            /\ UNCHANGED defaultPosition
    /\ msDirty' = FALSE
    /\ UNCHANGED <<prop, selectedPosition, position, mapCenter, zoom, calls,
                   hist, lastAct, flew>>
    /\ UNCHANGED apiVars

\* LocationMarker's effect: setPosition(initialPosition) and
\* map.flyTo(initialPosition, map.getZoom()).  Setting the state to the
\* object it already holds schedules no render.
Effect ==
    /\ pc = "effect"
    /\ position' = defaultPosition
    /\ mapCenter' = PosVal(defaultPosition)
    /\ flew' = TRUE
    /\ pc' = IF SameObject(position, defaultPosition) THEN "idle" ELSE "render"
    /\ UNCHANGED <<prop, selectedPosition, defaultPosition, zoom, calls,
                   msDirty, hist, lastAct>>
    /\ UNCHANGED apiVars

PickerNext ==
    \/ \E c \in ClickCoords : Click(c)
    \/ \E text \in EditTexts : EditLat(text)
    \/ \E text \in EditTexts : EditLng(text)
    \/ \E p \in Props : PropChange(p)
    \/ \E z \in ZoomLevels : ZoomMap(z)
    \/ Render
    \/ Effect

(***************************************************************************)
(* JSON values.  A field value (Leaf) is undefined, null, a number, a      *)
(* string, an array of element ids or a nested object; a top-level value   *)
(* adds the fields of an object.  Strings are sequences of pieces, so that *)
(* a template literal is a concatenation.                                  *)
(***************************************************************************)
Keys == {"buildings", "data", "results", "message", "boundaries"}

Leaf(t, arr, s) == [t |-> t, arr |-> arr, s |-> s]
LUndef == Leaf("undefined", <<>>, <<>>)
LNull == Leaf("null", <<>>, <<>>)
LNum(n) == Leaf("number", <<n>>, <<>>)
LStr(s) == Leaf("string", <<>>, s)
LArr(a) == Leaf("array", a, <<>>)
LObj == Leaf("object", <<>>, <<>>)

NoFields == [k \in Keys |-> LUndef]
J(leaf, f) == [t |-> leaf.t, arr |-> leaf.arr, s |-> leaf.s, f |-> f]
Up(leaf) == J(leaf, NoFields)
JNull == Up(LNull)
JUndefined == Up(LUndef)
JStr(s) == Up(LStr(s))
JArr(a) == Up(LArr(a))
JObject(f) == J(LObj, f)

\* data.k on a value that is neither null nor undefined.
Get(d, k) == IF d.t = "object" THEN d.f[k] ELSE LUndef

\* Array.isArray(x)
isArray(x) == x.t = "array"

\* JavaScript truthiness, as `a || b` tests it.
Truthy(x) ==
    CASE x.t \in {"undefined", "null"} -> FALSE
      [] x.t = "number" -> x.arr # <<0>>
      [] x.t = "string" -> x.s # <<>>
      [] OTHER -> TRUE

(***************************************************************************)
(* Outcomes of a call: a returned value or a thrown one.                   *)
(***************************************************************************)
Err(msg) == [isError |-> TRUE, message |-> msg]
NonErr == [isError |-> FALSE, message |-> <<>>]
Return(v) == [outcome |-> "return", val |-> v, err |-> NonErr]
Throw(e) == [outcome |-> "throw", val |-> JUndefined, err |-> e]

\* Reading a property of null: a TypeError.
NullDeref == Throw(Err(<<"Cannot read properties of null">>))

(***************************************************************************)
(* The transport: what fetch and response.json() do for one request.       *)
(***************************************************************************)
Transport(kind, err, body) ==
    [kind |-> kind, err |-> err, statusText |-> <<"Bad Gateway">>, body |-> body]

Failing ==
    { Transport("reject", Err(<<"Failed to fetch">>), JUndefined),
      Transport("reject", NonErr, JUndefined),
      Transport("notOk", NonErr, JUndefined),
      Transport("badJson", NonErr, JUndefined) }

ArrA == <<1>>
ArrB == <<2, 3>>

\* Payloads of the "list buildings" call: bare values, and objects whose
\* buildings, data and results fields are each absent, a string, or one of
\* two arrays.
ListField == {LUndef, LStr(<<"x">>), LArr(ArrA), LArr(ArrB)}
ListObjects ==
    { JObject([k \in Keys |->
          CASE k = "buildings" -> b
            [] k = "data" -> d
            [] k = "results" -> r
            [] OTHER -> LUndef]) : b \in ListField, d \in ListField, r \in ListField }
ListBodies ==
    {JNull, Up(LNum(0)), Up(LNum(7)), JStr(<<"x">>), JArr(<<>>), JArr(ArrB)}
        \cup ListObjects

\* Payloads of the other calls.
PlainBodies ==
    { JNull, Up(LNum(7)), JArr(ArrA), JObject(NoFields),
      JObject([NoFields EXCEPT !["message"] = LStr(<<"Saved">>)]),
      JObject([NoFields EXCEPT !["message"] = LStr(<<>>)]),
      JObject([NoFields EXCEPT !["boundaries"] = LArr(<<1, 2, 3>>)]) }

Ok(bodies) == {Transport("ok", NonErr, b) : b \in bodies}

\* fetch(...); if (!response.ok) throw new Error(prefix + statusText);
\* await response.json()
FetchJson(t, prefix) ==
    CASE t.kind = "reject" -> Throw(t.err)
      [] t.kind = "notOk" -> Throw(Err(<<prefix>> \o t.statusText))
      [] t.kind = "badJson" -> Throw(Err(<<"Unexpected token">>))
      [] OTHER -> Return(t.body)

\* catch (error) { ...; return null }
CatchNull(r) == IF r.outcome = "throw" THEN Return(JNull) ELSE r

\* catch (error) { ...; return `Error: ${error instanceof Error ? error.message : "Unknown error"}` }
CatchErrorString(r) ==
    IF r.outcome = "throw"
    THEN Return(JStr(<<"Error: ">> \o
             (IF r.err.isError THEN r.err.message ELSE <<"Unknown error">>)))
    ELSE r

\* catch (error) { ...; throw error }
CatchRethrow(r) == r

\* return data.message || fallback
MessageOr(r, fallback) ==
    IF r.outcome = "throw" THEN r
    ELSE IF r.val.t = "null" THEN NullDeref
    ELSE LET m == Get(r.val, "message")
         IN  Return(IF Truthy(m) THEN Up(m) ELSE JStr(<<fallback>>))

(***************************************************************************)
(* lib/api.ts                                                              *)
(***************************************************************************)
\* Boundary points, as JSON.stringify writes them.
PointText == <<"[6.5,3.3]", "[6.5,3.4]", "[6.6,3.3]">>
NumPoints == Len(PointText)

\* Boundary polygons: the points in ring order, forwards or backwards.
RingFwd(n) == [i \in 1..n |-> ((i - 1) % NumPoints) + 1]
RingBwd(n) == [i \in 1..n |-> NumPoints - ((i - 1) % NumPoints)]
Boundaries == {RingFwd(n) : n \in 0..MaxPoints} \cup {RingBwd(n) : n \in 0..MaxPoints}

\* JSON.stringify(boundaries)
RECURSIVE JoinPoints(_)
JoinPoints(b) ==
    IF b = <<>> THEN <<>>
    ELSE IF Len(b) = 1 THEN <<PointText[b[1]]>>
    ELSE <<PointText[b[1]], ",">> \o JoinPoints(Tail(b))
JsonStringify(b) == <<"[">> \o JoinPoints(b) \o <<"]">>

\* JSON.parse(text): an array of points, an empty object, or a SyntaxError.
IsPointText(tok) == \E i \in 1..NumPoints : PointText[i] = tok
PointOf(tok) == CHOOSE i \in 1..NumPoints : PointText[i] = tok
RECURSIVE ParseItems(_, _)
ParseItems(ts, acc) ==
    IF ts = <<>> \/ ~IsPointText(Head(ts)) THEN Throw(Err(<<"Unexpected token">>))
    ELSE LET got == Append(acc, PointOf(Head(ts)))
             rest == Tail(ts)
         IN  IF rest = <<>> THEN Return(JArr(got))
             ELSE IF Head(rest) = "," THEN ParseItems(Tail(rest), got)
             ELSE Throw(Err(<<"Unexpected token">>))
JsonParse(text) ==
    IF text = <<"{", "}">> THEN Return(JObject(NoFields))
    ELSE IF Len(text) < 2 \/ Head(text) # "[" \/ text[Len(text)] # "]"
    THEN Throw(Err(<<"Unexpected token">>))
    ELSE IF Len(text) = 2 THEN Return(JArr(<<>>))
    ELSE ParseItems(SubSeq(text, 2, Len(text) - 1), <<>>)

\* localStorage under LOCAL_STORAGE_KEY: absent, or a string.
NoItem == [has |-> FALSE, text |-> <<>>]
Item(text) == [has |-> TRUE, text |-> text]

\* saveToLocalStorage(boundaries): the storage afterwards.
saveToLocalStorage(store, boundaries) == Item(JsonStringify(boundaries))

\* loadFromLocalStorage(): the value returned.
loadFromLocalStorage(store) ==
    IF store.has /\ store.text # <<>>
    THEN LET parsed == JsonParse(store.text)
         IN  IF parsed.outcome = "throw" THEN Return(JNull)
             ELSE IF isArray(parsed.val) /\ Len(parsed.val.arr) >= 3 THEN parsed
             ELSE Return(JNull)
    ELSE Return(JNull)

loadBoundariesTry(t) ==
    LET r == FetchJson(t, "Failed to load boundaries: ")
    IN  IF r.outcome = "throw" THEN r
        ELSE IF r.val.t = "null" THEN NullDeref
        ELSE Return(Up(Get(r.val, "boundaries")))
loadBoundaries(t) == CatchNull(loadBoundariesTry(t))

saveBoundariesTry(boundaries, t) ==
    MessageOr(FetchJson(t, "Failed to save boundaries: "),
              "Boundaries saved successfully")
\* Faulty variant of saveBoundaries: the catch block re-raises.
saveBoundariesRethrows(boundaries, t) ==
    CatchRethrow(saveBoundariesTry(boundaries, t))

saveBoundaries(boundaries, t) == CatchErrorString(saveBoundariesTry(boundaries, t))

loadBuildings(t) == CatchNull(FetchJson(t, "Failed to load buildings: "))

\* Faulty variant of loadBuildingBySlug: the catch block re-raises.
loadBuildingBySlugRethrows(t) ==
    CatchRethrow(FetchJson(t, "Failed to load building: "))

loadBuildingBySlug(t) == CatchNull(FetchJson(t, "Failed to load building: "))

createBuilding(t) == CatchRethrow(FetchJson(t, "Failed to create building: "))

updateBuilding(t) == CatchRethrow(FetchJson(t, "Failed to update building: "))

uploadBuildingImage(t) == CatchRethrow(FetchJson(t, "Failed to upload image: "))

(***************************************************************************)
(* lib/api/buildings.ts                                                    *)
(***************************************************************************)
\* Faulty variant of Normalize: results is looked at before data.
NormalizeResultsBeforeData(data) ==
    IF isArray(data) THEN data
    ELSE IF Truthy(data) /\ data.t = "object"
    THEN IF isArray(Get(data, "buildings")) THEN Up(Get(data, "buildings"))
         ELSE IF isArray(Get(data, "results")) THEN Up(Get(data, "results"))
         ELSE IF isArray(Get(data, "data")) THEN Up(Get(data, "data"))
         ELSE JArr(<<>>)
    ELSE JArr(<<>>)

\* The response normalizer: lines 23-37 of loadBuildings.
Normalize(data) ==
    IF isArray(data) THEN data
    ELSE IF Truthy(data) /\ data.t = "object"
    THEN IF isArray(Get(data, "buildings")) THEN Up(Get(data, "buildings"))
         ELSE IF isArray(Get(data, "data")) THEN Up(Get(data, "data"))
         ELSE IF isArray(Get(data, "results")) THEN Up(Get(data, "results"))
         ELSE JArr(<<>>)
    ELSE JArr(<<>>)

buildings_loadBuildingsTry(t) ==
    LET r == FetchJson(t, "Failed to load buildings: ")
    IN  IF r.outcome = "throw" THEN r ELSE Return(Normalize(r.val))
buildings_loadBuildings(t) == CatchRethrow(buildings_loadBuildingsTry(t))

buildings_saveBuildings(buildings, t) ==
    CatchRethrow(MessageOr(FetchJson(t, "Failed to save buildings: "),
                           "Buildings saved successfully"))

(***************************************************************************)
(* The API helpers as a state machine: a caller invokes one helper, the    *)
(* transport answers, the helper settles.  The helpers share no state but  *)
(* localStorage, so one call in flight at a time loses nothing.            *)
(***************************************************************************)
NoCall == [active |-> FALSE, op |-> "none", arg |-> <<>>]
NoLast == [op |-> "none", arg |-> <<>>, t |-> Transport("none", NonErr, JUndefined),
           res |-> Return(JUndefined)]
NoSave == [done |-> FALSE, b |-> <<>>, failed |-> FALSE]

Ops == {"loadBoundaries", "saveBoundaries", "loadBuildings", "loadBuildingBySlug",
        "createBuilding", "updateBuilding", "uploadBuildingImage",
        "buildings.loadBuildings", "buildings.saveBuildings"}

ArgsOf(op) ==
    CASE op = "saveBoundaries" -> Boundaries
      [] op = "buildings.saveBuildings" -> {<<>>, ArrA}
      [] OTHER -> {<<>>}

\* What an earlier session may have left in localStorage.
StoredBefore == {NoItem, Item(JsonStringify(RingBwd(3))), Item(<<"{">>)}

ApiInit ==
    /\ localStorage \in StoredBefore
    /\ inflight = NoCall
    /\ last = NoLast
    /\ lastSave = NoSave

Invoke(op, arg) ==
    /\ ~inflight.active
    /\ inflight' = [active |-> TRUE, op |-> op, arg |-> arg]
    /\ UNCHANGED <<localStorage, last, lastSave>>
    /\ UNCHANGED pickerVars

\* The pending call settles with outcome res after the transport did t.
Settle(t, res) ==
    /\ last' = [op |-> inflight.op, arg |-> inflight.arg, t |-> t, res |-> res]
    /\ inflight' = NoCall
    /\ lastSave' = IF inflight.op = "saveBoundaries"
                   THEN [done |-> TRUE, b |-> inflight.arg, failed |-> t.kind # "ok"]
                   ELSE lastSave
    /\ UNCHANGED localStorage
    /\ UNCHANGED pickerVars

SettleLoadBoundaries ==
    /\ inflight.active
    /\ inflight.op = "loadBoundaries"
    /\ \E t \in Failing \cup Ok(PlainBodies) : Settle(t, loadBoundaries(t))

SettleSaveBoundaries ==
    /\ inflight.active
    /\ inflight.op = "saveBoundaries"
    /\ \E t \in Failing \cup Ok(PlainBodies) : Settle(t, saveBoundaries(inflight.arg, t))

SettleLoadBuildings ==
    /\ inflight.active
    /\ inflight.op = "loadBuildings"
    /\ \E t \in Failing \cup Ok(PlainBodies) : Settle(t, loadBuildings(t))

SettleLoadBuildingBySlug ==
    /\ inflight.active
    /\ inflight.op = "loadBuildingBySlug"
    /\ \E t \in Failing \cup Ok(PlainBodies) : Settle(t, loadBuildingBySlug(t))

SettleCreateBuilding ==
    /\ inflight.active
    /\ inflight.op = "createBuilding"
    /\ \E t \in Failing \cup Ok(PlainBodies) : Settle(t, createBuilding(t))

SettleUpdateBuilding ==
    /\ inflight.active
    /\ inflight.op = "updateBuilding"
    /\ \E t \in Failing \cup Ok(PlainBodies) : Settle(t, updateBuilding(t))

SettleUploadBuildingImage ==
    /\ inflight.active
    /\ inflight.op = "uploadBuildingImage"
    /\ \E t \in Failing \cup Ok(PlainBodies) : Settle(t, uploadBuildingImage(t))

SettleBuildingsLoadBuildings ==
    /\ inflight.active
    /\ inflight.op = "buildings.loadBuildings"
    /\ \E t \in Failing \cup Ok(ListBodies) : Settle(t, buildings_loadBuildings(t))

SettleBuildingsSaveBuildings ==
    /\ inflight.active
    /\ inflight.op = "buildings.saveBuildings"
    /\ \E t \in Failing \cup Ok(PlainBodies) : Settle(t, buildings_saveBuildings(inflight.arg, t))

ApiNext ==
    \/ \E op \in Ops : \E arg \in ArgsOf(op) : Invoke(op, arg)
    \/ SettleLoadBoundaries
    \/ SettleSaveBoundaries
    \/ SettleLoadBuildings
    \/ SettleLoadBuildingBySlug
    \/ SettleCreateBuilding
    \/ SettleUpdateBuilding
    \/ SettleUploadBuildingImage
    \/ SettleBuildingsLoadBuildings
    \/ SettleBuildingsSaveBuildings

(***************************************************************************)
(* Specifications                                                          *)
(***************************************************************************)
\* The API helpers; the picker is not mounted.
Init == ApiInit /\ PickerInit /\ prop = Undefined
Next == ApiNext
Spec == Init /\ [][Next]_vars

\* The location picker; no API call is made.
InitPicker == PickerInit /\ ApiInit /\ localStorage = NoItem
NextPicker == PickerNext
SpecPicker == InitPicker /\ [][NextPicker]_vars

(***************************************************************************)
(* Claims about the API helpers (checked under Spec)                       *)
(***************************************************************************)
SettledOk(op) == last.op = op /\ last.t.kind = "ok"
SettledFailed(op) == last.op = op /\ last.t.kind \in {"reject", "notOk", "badJson"}
BeginsWithError(v) == v.t = "string" /\ v.s # <<>> /\ Head(v.s) = "Error: "

\* The array the normalizer is said to return for payload p: p itself when
\* it is an array, else the array under the first of buildings, data,
\* results that holds one, else the empty array.
ListKeyOrder == <<"buildings", "data", "results">>
StatedList(p) ==
    IF p.t = "array" THEN p
    ELSE IF p.t = "object"
    THEN LET hits == {i \in 1..3 : p.f[ListKeyOrder[i]].t = "array"}
         IN  IF hits = {} THEN JArr(<<>>)
             ELSE LET first == CHOOSE i \in hits : \A j \in hits : i <= j
                  IN  JArr(p.f[ListKeyOrder[first]].arr)
    ELSE JArr(<<>>)

\* C1: for every parsed payload, loadBuildings of lib/api/buildings.ts
\* returns the payload if it is an array, else the first array under
\* buildings, data, results (in that order), else an empty array, and does
\* not throw.
C1_NormalizerContract ==
    SettledOk("buildings.loadBuildings") =>
        last.res = Return(StatedList(last.t.body))

\* C1 witness: buildings holds a string, data and results hold different
\* arrays, and the array under data came back.
C1_Witness ==
    /\ SettledOk("buildings.loadBuildings")
    /\ last.t.body.t = "object"
    /\ last.t.body.f["buildings"] = LStr(<<"x">>)
    /\ last.t.body.f["data"] = LArr(ArrA)
    /\ last.t.body.f["results"] = LArr(ArrB)
    /\ last.res = Return(JArr(ArrA))

\* How a failed call is said to end: the helpers in `rethrowers` throw, the
\* other loads return null and the other saves an "Error: ..." string.
LoadOps == {"loadBoundaries", "loadBuildings", "loadBuildingBySlug",
            "buildings.loadBuildings"}
SaveOps == {"saveBoundaries", "buildings.saveBuildings"}
FailureHandling(rethrowers) ==
    \A op \in Ops :
        SettledFailed(op) =>
            IF op \in rethrowers
            THEN last.res.outcome = "throw"
            ELSE /\ last.res.outcome = "return"
                 /\ op \in LoadOps => last.res.val = JNull
                 /\ op \in SaveOps => BeginsWithError(last.res.val)

StatedSaveMessage(body) ==
    IF body.t = "object" /\ Truthy(body.f["message"])
    THEN Up(body.f["message"])
    ELSE JStr(<<"Boundaries saved successfully">>)

\* C6 as stated: saveBoundaries never throws; it resolves to an "Error:"
\* string when fetch rejects, the response is not ok or the body does not
\* parse, and otherwise to the server's message or the default message.
C6_SaveBoundariesNeverThrows ==
    last.op = "saveBoundaries" =>
        /\ last.res.outcome = "return"
        /\ IF last.t.kind # "ok"
           THEN BeginsWithError(last.res.val)
           ELSE last.res.val = StatedSaveMessage(last.t.body)

\* C6 amended: saveBoundaries never throws; it resolves to an "Error:"
\* string when fetch rejects, the response is not ok, the body does not
\* parse or the body parses to null, and otherwise to the server's message
\* or the default message.
C6_SaveBoundariesNullBodyIsError ==
    last.op = "saveBoundaries" =>
        /\ last.res.outcome = "return"
        /\ IF last.t.kind # "ok" \/ last.t.body.t = "null"
           THEN BeginsWithError(last.res.val)
           ELSE last.res.val = StatedSaveMessage(last.t.body)

\* C6 witness: the three-point boundary was saved over a rejecting fetch
\* and the call resolved to an "Error:" string.
C6_Witness ==
    /\ SettledFailed("saveBoundaries")
    /\ last.arg = RingFwd(3)
    /\ last.t.kind = "reject"
    /\ last.res.outcome = "return"
    /\ BeginsWithError(last.res.val)

\* C7: after saveBoundaries(b) over a failing transport the localStorage
\* key holds JSON.stringify(b), and a following loadBoundaries whose server
\* call fails returns b when b has at least three points.
C7_LocalStorageFallback ==
    (lastSave.done /\ lastSave.failed) =>
        /\ localStorage = saveToLocalStorage(localStorage, lastSave.b)
        /\ (SettledFailed("loadBoundaries") /\ Len(lastSave.b) >= 3) =>
               last.res = Return(JArr(lastSave.b))

(***************************************************************************)
(* Claims about the location picker (checked under SpecPicker)             *)
(***************************************************************************)
LastEvent == hist[Len(hist)]
Settled == pc = "idle"
Coord(lat, lng) == [lat |-> Fin(lat), lng |-> Fin(lng)]

\* One step that handles an edit of a numeric field does what C2 says.
EditStepAsStated ==
    (Len(hist') = Len(hist) + 1 /\ hist'[Len(hist')].kind \in {"editLat", "editLng"}) =>
        LET e == hist'[Len(hist')]
            n == parseFloat(e.text)
            merged == IF e.kind = "editLat"
                      THEN [lat |-> n, lng |-> selectedPosition.lng]
                      ELSE [lat |-> selectedPosition.lat, lng |-> n]
        IN  IF isNaN(n)
            THEN selectedPosition' = selectedPosition /\ calls' = calls
            ELSE /\ PosVal(selectedPosition') = merged
                 /\ calls' = Append(calls, merged)

\* C2: an edit of either numeric field whose text parses to NaN leaves the
\* selected position unchanged and fires no callback; otherwise it replaces
\* only that axis and fires the callback exactly once with the merged
\* position, after any earlier clicks and edits.
C2_FieldEditMergesOneAxis == [][EditStepAsStated]_vars

\* C2 witness: latitude edited to "6.6" while longitude holds 3.37534, and
\* {lat: 6.6, lng: 3.37534} was reported.
C2_Witness ==
    /\ hist # <<>>
    /\ LastEvent.kind = "editLat"
    /\ LastEvent.text = Text66
    /\ LastEvent.val.lng = Fin(DefaultLng)
    /\ PosVal(selectedPosition) = Coord(6600000, DefaultLng)
    /\ calls # <<>>
    /\ calls[Len(calls)] = Coord(6600000, DefaultLng)

\* C3: after n map clicks (and nothing else entered) the callback has been
\* invoked exactly n times, the i-th time with the i-th clicked coordinate,
\* whatever re-renders and effects ran in between.
C3_OneCallbackPerClick ==
    (\A i \in 1..Len(hist) : hist[i].kind = "click") =>
        calls = [i \in 1..Len(hist) |-> hist[i].val]

\* C3 witness: clicks at (6.50, 3.30) then (6.55, 3.35), the re-render and
\* the effect have run, and the callback saw exactly those two values.
C3_Witness ==
    /\ Settled
    /\ flew
    /\ Len(hist) = 2
    /\ hist[1].kind = "click" /\ hist[2].kind = "click"
    /\ calls = <<Coord(6500000, 3300000), Coord(6550000, 3350000)>>

\* C4: once the initialPosition prop has changed to a new value and React
\* has settled, the selected position is that value, with no user action,
\* and the map is centred on it at the zoom level it had.
C4_PropChangeResetsSelection ==
    (Settled /\ lastAct.kind = "prop") =>
        /\ PosVal(selectedPosition) = lastAct.val
        /\ PosVal(position) = lastAct.val
        /\ mapCenter = lastAct.val
        /\ zoom = lastAct.zoom

\* C8: every position handed to onLocationSelect has finite lat and lng.
C8_ReportedPositionsFinite ==
    \A i \in 1..Len(calls) : IsFinite(calls[i].lat) /\ IsFinite(calls[i].lng)

\* C9: once React has settled, the marker's position equals the numeric
\* fields' selectedPosition, which equals the value the last click,
\* successful edit or prop change established.
C9_RepresentationsInSync ==
    Settled =>
        /\ PosVal(position) = PosVal(selectedPosition)
        /\ lastAct.kind \in {"click", "edit", "prop"} =>
               PosVal(selectedPosition) = lastAct.val

\* C10: mounted without initialPosition, after a map click at c and the
\* re-render it triggers, the marker is at c and the map was not flown.
C10_ClickStaysWithoutInitialPosition ==
    (Settled /\ ~prop.def /\ lastAct.kind = "click") =>
        /\ PosVal(position) = lastAct.val
        /\ ~flew

====
